---- MODULE Spec2Model ----
(***************************************************************************)
(* Model of the NCBI-MCP tool registry and dispatch engine                 *)
(* (src/src/ncbi_mcp/handlers.py, errors.py, schemas.py, client.py).       *)
(*                                                                         *)
(* Representation.                                                         *)
(*  - A Python str is a sequence of atoms.  An atom is either one of the   *)
(*    characters JSON treats specially (quote, backslash, newline) or an   *)
(*    opaque run of ordinary characters ("pubmed", "Total found: ").       *)
(*  - A Python scalar or list is a tagged record [t, s, l]: None, a str,   *)
(*    an int (its decimal text in s) or a list of str (in l).              *)
(*  - A Python dict (the argument mapping, a collaborator result, kwargs)  *)
(*    is a function from the keys that are present to values.              *)
(*  - The collaborator (the ncbi_client package) is the environment: each  *)
(*    call it receives is answered by a nondeterministic return or raise.  *)
(*  - A handler is a resumable computation: handle_x(args, rs) runs the    *)
(*    body from the top given the collaborator responses rs received so    *)
(*    far and yields the next step: a collaborator call, a return or a     *)
(*    raise.                                                               *)
(*  - Spec is the server answering tool calls once tool_handlers exists;   *)
(*    ManagerSpec starts before any client exists and lets threads run the *)
(*    client property step by step.                                        *)
(*  - Requests carry the keys the catalog marks "required" outright (db,   *)
(*    dbfrom, term, citations); every other key may be absent, null or set.*)
(***************************************************************************)
EXTENDS Integers, Sequences, FiniteSets, TLC

VARIABLES pc, name, args, resps, calls, outcome, log, reachable, guard, listed,
          client_manager, instances, threads, tool_handlers, seen, via

(* the client manager, the clients constructed so far, the threads inside  *)
(* the client property, the shared handlers object, and what has been      *)
(* observed since the last reinitialize                                    *)
manager == <<client_manager, instances, threads, tool_handlers, seen>>

vars == <<pc, name, args, resps, calls, outcome, log, reachable, guard, listed,
          client_manager, instances, threads, tool_handlers, seen, via>>

(***************************************************************************)
(* Bounds                                                                  *)
(***************************************************************************)
MaxIds == 2
MaxCount == 2
MaxLists == 2
MaxClients == 2
MaxThreads == 2
MaxReinits == 1

(* "-" * 50 *)
DashCount == 50

(* args.get("retmax", 10) *)
DefaultRetmax == 10

(***************************************************************************)
(* Python values                                                           *)
(***************************************************************************)
None == [t |-> "none", s |-> <<>>, l |-> <<>>]
Absent == [t |-> "absent", s |-> <<>>, l |-> <<>>]
Text(x) == [t |-> "str", s |-> x, l |-> <<>>]
PyInt(n) == [t |-> "int", s |-> <<ToString(n)>>, l |-> <<>>]
PyBool(b) == [t |-> "bool", s |-> <<IF b THEN "true" ELSE "false">>, l |-> <<>>]
PyList(x) == [t |-> "list", s |-> <<>>, l |-> x]

EmptyDict == [k \in {} |-> None]

IsValue(x) == DOMAIN x = {"t", "s", "l"}

(* bool(v) *)
Truthy(v) ==
    CASE v.t = "none" -> FALSE
      [] v.t = "str" -> v.s # <<>>
      [] v.t = "int" -> v.s # <<"0">>
      [] v.t = "bool" -> v.s = <<"true">>
      [] v.t = "list" -> v.l # <<>>
      [] OTHER -> FALSE

(* d.get(k) and d.get(k, default) *)
Get(d, k, default) == IF k \in DOMAIN d THEN d[k] ELSE default

(* str(v) as used by f-strings, for the scalars that occur *)
PyStr(v) ==
    CASE v.t = "none" -> <<"None">>
      [] v.t = "str" -> v.s
      [] OTHER -> v.s

(* {k: v for k, v in args.items() if k not in excluded and v is not None} *)
Kwargs(a, excluded) ==
    [k \in {x \in DOMAIN a : x \notin excluded /\ a[x] # None} |-> a[k]]

(* one optional key of a request: absent, or present with value v *)
Opt(k, v) == IF v = Absent THEN EmptyDict ELSE (k :> v)

(* str.lower() on the retmode spellings that occur *)
Lower(x) ==
    [i \in 1..Len(x) |->
        CASE x[i] = "JSON" -> "json"
          [] x[i] = "Json" -> "json"
          [] x[i] = "TEXT" -> "text"
          [] OTHER -> x[i]]

(***************************************************************************)
(* json.dumps / json.loads                                                 *)
(* The text is a sequence of atoms: the punctuation { } [ ] : , and the    *)
(* quote are atoms of their own.  Whitespace (indent=2) is not modelled.   *)
(* Members are written in the fixed order KeyOrder.                        *)
(***************************************************************************)
KeyOrder ==
    <<"search_info", "query", "total_found", "returned", "records",
      "id_list", "count", "webenv", "query_key", "databases",
      "available_databases", "server_name", "version", "uid", "title",
      "links", "term", "corrected", "pmid", "db">>

(* escaping that writes a quote as backslash, apostrophe *)
RECURSIVE Escape_apostrophe(_)
Escape_apostrophe(x) ==
    IF x = <<>> THEN <<>>
    ELSE (CASE Head(x) = "\"" -> <<"\\", "'">>
            [] Head(x) = "\\" -> <<"\\", "\\">>
            [] Head(x) = "\n" -> <<"\\", "n">>
            [] OTHER -> <<Head(x)>>) \o Escape_apostrophe(Tail(x))

RECURSIVE Escape(_)
Escape(x) ==
    IF x = <<>> THEN <<>>
    ELSE (CASE Head(x) = "\"" -> <<"\\", "\"">>
            [] Head(x) = "\\" -> <<"\\", "\\">>
            [] Head(x) = "\n" -> <<"\\", "n">>
            [] OTHER -> <<Head(x)>>) \o Escape(Tail(x))

DumpsStr(x) == <<"\"">> \o Escape(x) \o <<"\"">>

RECURSIVE DumpsItems(_)
DumpsItems(l) ==
    IF l = <<>> THEN <<>>
    ELSE DumpsStr(Head(l))
         \o (IF Tail(l) = <<>> THEN <<>> ELSE <<",">> \o DumpsItems(Tail(l)))

DumpsValue(v) ==
    CASE v.t = "none" -> <<"null">>
      [] v.t = "str" -> DumpsStr(v.s)
      [] v.t = "list" -> <<"[">> \o DumpsItems(v.l) \o <<"]">>
      [] OTHER -> v.s

RECURSIVE json_dumps(_), DumpsMembers(_, _, _)
json_dumps(j) ==
    IF IsValue(j) THEN DumpsValue(j)
    ELSE <<"{">> \o DumpsMembers(j, 1, TRUE) \o <<"}">>

DumpsMembers(d, i, first) ==
    IF i > Len(KeyOrder) THEN <<>>
    ELSE IF KeyOrder[i] \notin DOMAIN d THEN DumpsMembers(d, i + 1, first)
    ELSE (IF first THEN <<>> ELSE <<",">>)
         \o DumpsStr(<<KeyOrder[i]>>) \o <<":">> \o json_dumps(d[KeyOrder[i]])
         \o DumpsMembers(d, i + 1, FALSE)

RECURSIVE ParseStr(_, _, _)
ParseStr(t, i, acc) ==
    IF i > Len(t) THEN [v |-> acc, n |-> i]
    ELSE IF t[i] = "\"" THEN [v |-> acc, n |-> i + 1]
    ELSE IF t[i] = "\\" /\ i < Len(t)
         THEN ParseStr(t, i + 2,
                       Append(acc, IF t[i + 1] = "n" THEN "\n" ELSE t[i + 1]))
    ELSE ParseStr(t, i + 1, Append(acc, t[i]))

RECURSIVE ParseItems(_, _, _)
ParseItems(t, i, acc) ==
    IF i > Len(t) \/ t[i] = "]" THEN [v |-> PyList(acc), n |-> i + 1]
    ELSE IF t[i] = "," THEN ParseItems(t, i + 1, acc)
    ELSE LET r == ParseStr(t, i + 1, <<>>)
         IN  ParseItems(t, r.n, Append(acc, r.v))

RECURSIVE ParseValue(_, _), ParseMembers(_, _, _)
ParseValue(t, i) ==
    CASE t[i] = "\"" ->
            LET r == ParseStr(t, i + 1, <<>>) IN [v |-> Text(r.v), n |-> r.n]
      [] t[i] = "[" -> ParseItems(t, i + 1, <<>>)
      [] t[i] = "{" -> ParseMembers(t, i + 1, EmptyDict)
      [] t[i] = "null" -> [v |-> None, n |-> i + 1]
      [] t[i] \in {"true", "false"} -> [v |-> PyBool(t[i] = "true"), n |-> i + 1]
      [] OTHER -> [v |-> [t |-> "int", s |-> <<t[i]>>, l |-> <<>>], n |-> i + 1]

ParseMembers(t, i, acc) ==
    IF i > Len(t) \/ t[i] = "}" THEN [v |-> acc, n |-> i + 1]
    ELSE IF t[i] = "," THEN ParseMembers(t, i + 1, acc)
    ELSE LET k == ParseStr(t, i + 1, <<>>)
             m == ParseValue(t, k.n + 1)
         IN  ParseMembers(t, m.n, (k.v[1] :> m.v) @@ acc)

json_loads(t) == ParseValue(t, 1).v

(***************************************************************************)
(* Exceptions.  An exception carries the set of classes it is an instance  *)
(* of (its class and that class's bases) and its message, str(e).          *)
(***************************************************************************)
NoExc == [cls |-> "", bases |-> {}, msg |-> <<>>]

Exception(cls, bases, msg) == [cls |-> cls, bases |-> bases \cup {cls, "Exception"}, msg |-> msg]

(* str(KeyError(k)) is the repr of the key *)
KeyError(k) == Exception("KeyError", {"LookupError"}, <<"'", k, "'">>)

ValueError(msg) == Exception("ValueError", {}, msg)

AttributeError(msg) == Exception("AttributeError", {}, msg)

TypeError(msg) == Exception("TypeError", {}, msg)

RuntimeError(msg) == Exception("RuntimeError", {}, msg)

(* The failures the collaborator raises: the four classes imported from    *)
(* ncbi_client.core.exceptions, the three specific ones being subclasses   *)
(* of NCBIError, and an exception of no NCBI class.                        *)
Messages == {<<"boom">>, <<"HTTP 429", "\n">>}

CollaboratorFailures ==
    {Exception(c, {"NCBIError"}, m) :
        c \in {"RateLimitError", "AuthenticationError", "NetworkError", "NCBIError"},
        m \in Messages}
    \cup {Exception("OSError", {}, m) : m \in Messages}

(***************************************************************************)
(* Steps of a resumable handler                                            *)
(***************************************************************************)
Call(m, pos, kw) ==
    [k |-> "call", method |-> m, pos |-> pos, kw |-> kw, exc |-> NoExc,
     out |-> None, log |-> <<>>]

Return(x) ==
    [k |-> "return", method |-> "", pos |-> <<>>, kw |-> EmptyDict, exc |-> NoExc,
     out |-> x, log |-> <<>>]

Raise(e) ==
    [k |-> "raise", method |-> "", pos |-> <<>>, kw |-> EmptyDict, exc |-> e,
     out |-> None, log |-> <<>>]

(* The i-th collaborator call of a body: not yet answered, it is the next  *)
(* step; answered by a raise, the exception propagates; answered by a      *)
(* value, rs[i].val, the body continues with rest, which reads that value. *)
Invoke(rs, i, m, pos, kw, rest) ==
    IF Len(rs) < i THEN Call(m, pos, kw)
    ELSE IF ~rs[i].ok THEN Raise(rs[i].exc)
    ELSE rest

(* the first of the keys ks that args[k] would raise KeyError on, or "" *)
RECURSIVE Missing(_, _)
Missing(a, ks) ==
    IF ks = <<>> THEN ""
    ELSE IF Head(ks) \notin DOMAIN a THEN Head(ks)
    ELSE Missing(a, Tail(ks))

(***************************************************************************)
(* errors.py: handle_ncbi_errors                                           *)
(***************************************************************************)
LogRecord(level, msg) == [level |-> level, msg |-> msg]

Reraise(level, logmsg, prefix, e) ==
    [Raise(RuntimeError(<<prefix>> \o e.msg)) EXCEPT !.log = <<LogRecord(level, logmsg)>>]

(* the decorator with the NCBIError clause tried before its subclasses *)
handle_ncbi_errors_generic_first(step) ==
    IF step.k # "raise" THEN step
    ELSE LET e == step.exc IN
         IF "NCBIError" \in e.bases
         THEN Reraise("error", <<"NCBI error: ">> \o e.msg, "NCBI error: ", e)
         ELSE Reraise("error", <<"Unexpected error in NCBI operation">>,
                      "Unexpected error: ", e)

(* the decorator with the NetworkError clause tried first *)
handle_ncbi_errors_network_first(step) ==
    IF step.k # "raise" THEN step
    ELSE LET e == step.exc IN
         IF "NetworkError" \in e.bases
         THEN Reraise("error", <<"NCBI network error: ">> \o e.msg,
                      "NCBI network error: ", e)
         ELSE IF "RateLimitError" \in e.bases
         THEN Reraise("warning", <<"NCBI rate limit exceeded: ">> \o e.msg,
                      "NCBI rate limit exceeded: ", e)
         ELSE IF "AuthenticationError" \in e.bases
         THEN Reraise("error", <<"NCBI authentication failed: ">> \o e.msg,
                      "NCBI authentication failed: ", e)
         ELSE IF "NCBIError" \in e.bases
         THEN Reraise("error", <<"NCBI error: ">> \o e.msg, "NCBI error: ", e)
         ELSE Reraise("error", <<"Unexpected error in NCBI operation">>,
                      "Unexpected error: ", e)

(* the decorator without its last clause, except Exception *)
handle_ncbi_errors_ncbi_only(step) ==
    IF step.k # "raise" THEN step
    ELSE LET e == step.exc IN
         IF "NCBIError" \in e.bases
         THEN Reraise("error", <<"NCBI error: ">> \o e.msg, "NCBI error: ", e)
         ELSE step

handle_ncbi_errors(step) ==
    IF step.k # "raise" THEN step
    ELSE LET e == step.exc IN
         IF "RateLimitError" \in e.bases
         THEN Reraise("warning", <<"NCBI rate limit exceeded: ">> \o e.msg,
                      "NCBI rate limit exceeded: ", e)
         ELSE IF "AuthenticationError" \in e.bases
         THEN Reraise("error", <<"NCBI authentication failed: ">> \o e.msg,
                      "NCBI authentication failed: ", e)
         ELSE IF "NetworkError" \in e.bases
         THEN Reraise("error", <<"NCBI network error: ">> \o e.msg,
                      "NCBI network error: ", e)
         ELSE IF "NCBIError" \in e.bases
         THEN Reraise("error", <<"NCBI error: ">> \o e.msg, "NCBI error: ", e)
         ELSE Reraise("error", <<"Unexpected error in NCBI operation">>,
                      "Unexpected error: ", e)

(***************************************************************************)
(* errors.py: ErrorHandler.  __exit__ receives the outcome of the body of  *)
(* the with block: without an exception it returns False and the block     *)
(* ends normally; with one it logs and raises RuntimeError in its place.   *)
(***************************************************************************)
RaiseIn(kind, operation_name, e) ==
    [Raise(RuntimeError(<<kind, operation_name, ": ">> \o e.msg))
       EXCEPT !.log = <<LogRecord("error",
                                  <<"Error in ", operation_name, ": ">> \o e.msg)>>]

ErrorHandler_exit(operation_name, step) ==
    IF step.k # "raise" THEN step
    ELSE LET e == step.exc IN
         IF "RateLimitError" \in e.bases
         THEN RaiseIn("NCBI rate limit exceeded in ", operation_name, e)
         ELSE IF "AuthenticationError" \in e.bases
         THEN RaiseIn("NCBI authentication failed in ", operation_name, e)
         ELSE IF "NetworkError" \in e.bases
         THEN RaiseIn("NCBI network error in ", operation_name, e)
         ELSE IF "NCBIError" \in e.bases
         THEN RaiseIn("NCBI error in ", operation_name, e)
         ELSE RaiseIn("Unexpected error in ", operation_name, e)

(***************************************************************************)
(* handlers.py: the handlers.  Each is its body under the decorator.       *)
(***************************************************************************)
Dumped(r) == Return(Text(json_dumps(r)))

handle_esearch(a, rs) ==
    handle_ncbi_errors(
        IF Missing(a, <<"db", "term">>) # ""
        THEN Raise(KeyError(Missing(a, <<"db", "term">>)))
        ELSE LET kwargs == Kwargs(a, {"db", "term"})
                 kw == ("db" :> a["db"]) @@ ("term" :> a["term"]) @@ kwargs
             IN  IF Truthy(Get(a, "usehistory", PyBool(FALSE)))
                 THEN Invoke(rs, 1, "esearch.search_with_history", <<>>, kw,
                             Dumped(rs[1].val))
                 ELSE Invoke(rs, 1, "esearch.search", <<>>, kw,
                             Dumped(rs[1].val)))

(* handle_efetch with the two branches swapped: the identifier list wins *)
handle_efetch_ids_first(a, rs) ==
    handle_ncbi_errors(
        IF "id_list" \in DOMAIN a
        THEN Invoke(rs, 1, "efetch.fetch", <<>>,
                    ("db" :> a["db"]) @@ ("id_list" :> a["id_list"])
                    @@ Kwargs(a, {"db", "id_list"}),
                    Return(rs[1].val))
        ELSE IF "webenv" \in DOMAIN a /\ "query_key" \in DOMAIN a
        THEN Invoke(rs, 1, "efetch.fetch_from_history", <<>>,
                    ("db" :> a["db"]) @@ ("webenv" :> a["webenv"])
                    @@ ("query_key" :> a["query_key"])
                    @@ Kwargs(a, {"db", "webenv", "query_key"}),
                    Return(rs[1].val))
        ELSE Raise(KeyError("id_list")))

handle_efetch(a, rs) ==
    handle_ncbi_errors(
        IF Missing(a, <<"db">>) # "" THEN Raise(KeyError("db"))
        ELSE IF "webenv" \in DOMAIN a /\ "query_key" \in DOMAIN a
        THEN Invoke(rs, 1, "efetch.fetch_from_history", <<>>,
                    ("db" :> a["db"]) @@ ("webenv" :> a["webenv"])
                    @@ ("query_key" :> a["query_key"])
                    @@ Kwargs(a, {"db", "webenv", "query_key"}),
                    Return(rs[1].val))
        ELSE IF "id_list" \notin DOMAIN a THEN Raise(KeyError("id_list"))
        ELSE Invoke(rs, 1, "efetch.fetch", <<>>,
                    ("db" :> a["db"]) @@ ("id_list" :> a["id_list"])
                    @@ Kwargs(a, {"db", "id_list"}),
                    Return(rs[1].val)))

handle_esummary(a, rs) ==
    handle_ncbi_errors(
        IF Missing(a, <<"db">>) # "" THEN Raise(KeyError("db"))
        ELSE IF "webenv" \in DOMAIN a /\ "query_key" \in DOMAIN a
        THEN Invoke(rs, 1, "esummary.summary_from_history", <<>>,
                    ("db" :> a["db"]) @@ ("webenv" :> a["webenv"])
                    @@ ("query_key" :> a["query_key"])
                    @@ Kwargs(a, {"db", "webenv", "query_key"}),
                    Dumped(rs[1].val))
        ELSE IF "id_list" \notin DOMAIN a THEN Raise(KeyError("id_list"))
        ELSE Invoke(rs, 1, "esummary.summary", <<>>,
                    ("db" :> a["db"]) @@ ("id_list" :> a["id_list"])
                    @@ Kwargs(a, {"db", "id_list"}),
                    Dumped(rs[1].val)))

(* len(id_list) in the log line raises TypeError on None *)
handle_epost(a, rs) ==
    handle_ncbi_errors(
        IF Missing(a, <<"db", "id_list">>) # ""
        THEN Raise(KeyError(Missing(a, <<"db", "id_list">>)))
        ELSE IF a["id_list"].t # "list"
        THEN Raise(TypeError(<<"object of type 'NoneType' has no len()">>))
        ELSE Invoke(rs, 1, "epost.post", <<>>,
                    ("db" :> a["db"]) @@ ("id_list" :> a["id_list"])
                    @@ ("webenv" :> Get(a, "webenv", None)),
                    Dumped(rs[1].val)))

handle_elink(a, rs) ==
    handle_ncbi_errors(
        IF Missing(a, <<"dbfrom", "db">>) # ""
        THEN Raise(KeyError(Missing(a, <<"dbfrom", "db">>)))
        ELSE IF "webenv" \in DOMAIN a /\ "query_key" \in DOMAIN a
        THEN Invoke(rs, 1, "elink.link_from_history", <<>>,
                    ("dbfrom" :> a["dbfrom"]) @@ ("db" :> a["db"])
                    @@ ("webenv" :> a["webenv"]) @@ ("query_key" :> a["query_key"])
                    @@ Kwargs(a, {"dbfrom", "db", "webenv", "query_key"}),
                    Dumped(rs[1].val))
        ELSE IF "id_list" \notin DOMAIN a THEN Raise(KeyError("id_list"))
        ELSE Invoke(rs, 1, "elink.link", <<>>,
                    ("dbfrom" :> a["dbfrom"]) @@ ("db" :> a["db"])
                    @@ ("id_list" :> a["id_list"])
                    @@ Kwargs(a, {"dbfrom", "db", "id_list"}),
                    Dumped(rs[1].val)))

(* handle_einfo that lists the databases whatever db is *)
handle_einfo_list_only(a, rs) ==
    handle_ncbi_errors(
        Invoke(rs, 1, "einfo.get_databases", <<>>, EmptyDict,
               Dumped("databases" :> rs[1].val)))

handle_einfo(a, rs) ==
    handle_ncbi_errors(
        LET db == Get(a, "db", None)
        IN  IF Truthy(db)
            THEN Invoke(rs, 1, "einfo.get_database_info", <<db>>, EmptyDict,
                        Dumped(rs[1].val))
            ELSE Invoke(rs, 1, "einfo.get_databases", <<>>, EmptyDict,
                        Dumped("databases" :> rs[1].val)))

handle_egquery(a, rs) ==
    handle_ncbi_errors(
        IF Missing(a, <<"term">>) # "" THEN Raise(KeyError("term"))
        ELSE Invoke(rs, 1, "egquery.global_search", <<a["term"]>>, EmptyDict,
                    Dumped(rs[1].val)))

handle_espell(a, rs) ==
    handle_ncbi_errors(
        IF Missing(a, <<"db", "term">>) # ""
        THEN Raise(KeyError(Missing(a, <<"db", "term">>)))
        ELSE Invoke(rs, 1, "espell.spell_check", <<>>,
                    ("db" :> a["db"]) @@ ("term" :> a["term"]),
                    Dumped(rs[1].val)))

(* handle_ecitmatch without the default of db *)
handle_ecitmatch_no_default(a, rs) ==
    handle_ncbi_errors(
        IF Missing(a, <<"citations">>) # "" THEN Raise(KeyError("citations"))
        ELSE IF a["citations"].t # "list"
        THEN Raise(TypeError(<<"object of type 'NoneType' has no len()">>))
        ELSE Invoke(rs, 1, "ecitmatch.citation_match", <<>>,
                    ("db" :> Get(a, "db", None))
                    @@ ("citations" :> a["citations"]),
                    Dumped(rs[1].val)))

(* len(citations) in the log line raises TypeError on None *)
handle_ecitmatch(a, rs) ==
    handle_ncbi_errors(
        IF Missing(a, <<"citations">>) # "" THEN Raise(KeyError("citations"))
        ELSE IF a["citations"].t # "list"
        THEN Raise(TypeError(<<"object of type 'NoneType' has no len()">>))
        ELSE Invoke(rs, 1, "ecitmatch.citation_match", <<>>,
                    ("db" :> Get(a, "db", Text(<<"pubmed">>)))
                    @@ ("citations" :> a["citations"]),
                    Dumped(rs[1].val)))

Dashes == [i \in 1..DashCount |-> "-"]

(* no_results testing only for a missing key *)
no_results_absent_only(search_result) == "id_list" \notin DOMAIN search_result

(* if not search_result.get("id_list") *)
no_results(search_result) == ~Truthy(Get(search_result, "id_list", None))

(* f"No results found for query: {term}" *)
no_results_text(term) == <<"No results found for query: ">> \o PyStr(term)

(* fetch_kwargs fetching the first identifier only *)
fetch_kwargs_first_id(db, search_result, rettype, retmode) ==
    ("db" :> db) @@ ("id_list" :> PyList(SubSeq(search_result["id_list"].l, 1, 1)))
    @@ ("rettype" :> rettype) @@ ("retmode" :> retmode)

(* the keyword arguments of the fetch step *)
fetch_kwargs(db, search_result, rettype, retmode) ==
    ("db" :> db) @@ ("id_list" :> search_result["id_list"])
    @@ ("rettype" :> rettype) @@ ("retmode" :> retmode)

(* search_info reporting the total as the returned count *)
search_info_returned_total(term, search_result) ==
    ("query" :> term)
    @@ ("total_found" :> Get(search_result, "count", PyInt(0)))
    @@ ("returned" :> Get(search_result, "count", PyInt(0)))

(* combined_result["search_info"] *)
search_info(term, search_result) ==
    ("query" :> term)
    @@ ("total_found" :> Get(search_result, "count", PyInt(0)))
    @@ ("returned" :> PyInt(Len(search_result["id_list"].l)))

(* result_text without the newline that ends the separator line *)
result_text_unterminated(term, search_result, fetch_result) ==
    <<"Search Results for: ">> \o PyStr(term) \o <<"\n">>
    \o <<"Total found: ">> \o PyStr(Get(search_result, "count", PyInt(0))) \o <<"\n">>
    \o <<"Returned: ">> \o PyStr(PyInt(Len(search_result["id_list"].l))) \o <<"\n">>
    \o Dashes
    \o fetch_result.s

(* the text/xml rendering *)
result_text(term, search_result, fetch_result) ==
    <<"Search Results for: ">> \o PyStr(term) \o <<"\n">>
    \o <<"Total found: ">> \o PyStr(Get(search_result, "count", PyInt(0))) \o <<"\n">>
    \o <<"Returned: ">> \o PyStr(PyInt(Len(search_result["id_list"].l))) \o <<"\n">>
    \o Dashes \o <<"\n">>
    \o fetch_result.s

handle_search_and_fetch(a, rs) ==
    handle_ncbi_errors(
        IF Missing(a, <<"db", "term">>) # ""
        THEN Raise(KeyError(Missing(a, <<"db", "term">>)))
        ELSE LET db == a["db"]
                 term == a["term"]
                 retmax == Get(a, "retmax", PyInt(DefaultRetmax))
                 rettype == Get(a, "rettype", Text(<<"abstract">>))
                 retmode == Get(a, "retmode", Text(<<"text">>))
                 search_result == rs[1].val
                 fetch_result == rs[2].val
             IN  Invoke(rs, 1, "esearch.search", <<>>,
                    ("db" :> db) @@ ("term" :> term) @@ ("retmax" :> retmax),
                    IF no_results(search_result)
                    THEN Return(Text(no_results_text(term)))
                    ELSE Invoke(rs, 2, "efetch.fetch", <<>>,
                           fetch_kwargs(db, search_result, rettype, retmode),
                           LET combined_result ==
                                 ("search_info" :> search_info(term, search_result))
                                 @@ ("records" :> fetch_result)
                           IN  IF retmode.t # "str"
                               THEN Raise(AttributeError(
                                      <<"'NoneType' object has no attribute 'lower'">>))
                               ELSE IF Lower(retmode.s) = <<"json">>
                               THEN Dumped(combined_result)
                               ELSE IF fetch_result.t # "str"
                               THEN Raise(TypeError(<<"can only concatenate str">>))
                               ELSE Return(Text(
                                      result_text(term, search_result, fetch_result))))))

(* handle_get_databases returning the list alone *)
handle_get_databases_list_only(a, rs) ==
    handle_ncbi_errors(
        Invoke(rs, 1, "get_databases", <<>>, EmptyDict,
               Dumped("available_databases" :> rs[1].val)))

(* len(databases) raises TypeError on a value without a length *)
handle_get_databases(a, rs) ==
    handle_ncbi_errors(
        Invoke(rs, 1, "get_databases", <<>>, EmptyDict,
               LET databases == rs[1].val
               IN  IF databases.t # "list"
                   THEN Raise(TypeError(<<"object of type 'NoneType' has no len()">>))
                   ELSE Dumped(("available_databases" :> databases)
                               @@ ("count" :> PyInt(Len(databases.l))))))

(* the literal dict, abridged to its first two members; not decorated *)
server_info ==
    ("server_name" :> Text(<<"NCBI-MCP Server">>)) @@ ("version" :> Text(<<"0.1.0">>))

(* handle_server_info asking the provider for its databases first *)
handle_server_info_probing(a, rs) ==
    Invoke(rs, 1, "get_databases", <<>>, EmptyDict, Dumped(server_info))

handle_server_info(a, rs) == Dumped(server_info)

(***************************************************************************)
(* handlers.py: dispatch                                                   *)
(***************************************************************************)
(* the registry with the handlers of egquery and espell exchanged *)
handlers_exchanged ==
    [esearch |-> "handle_esearch", efetch |-> "handle_efetch",
     esummary |-> "handle_esummary", epost |-> "handle_epost",
     elink |-> "handle_elink", einfo |-> "handle_einfo",
     egquery |-> "handle_espell", espell |-> "handle_egquery",
     ecitmatch |-> "handle_ecitmatch",
     search_and_fetch |-> "handle_search_and_fetch",
     get_databases |-> "handle_get_databases",
     server_info |-> "handle_server_info"]

handlers ==
    [esearch |-> "handle_esearch", efetch |-> "handle_efetch",
     esummary |-> "handle_esummary", epost |-> "handle_epost",
     elink |-> "handle_elink", einfo |-> "handle_einfo",
     egquery |-> "handle_egquery", espell |-> "handle_espell",
     ecitmatch |-> "handle_ecitmatch",
     search_and_fetch |-> "handle_search_and_fetch",
     get_databases |-> "handle_get_databases",
     server_info |-> "handle_server_info"]

(* handler(arguments) *)
Apply(h, a, rs) ==
    CASE h = "handle_esearch" -> handle_esearch(a, rs)
      [] h = "handle_efetch" -> handle_efetch(a, rs)
      [] h = "handle_esummary" -> handle_esummary(a, rs)
      [] h = "handle_epost" -> handle_epost(a, rs)
      [] h = "handle_elink" -> handle_elink(a, rs)
      [] h = "handle_einfo" -> handle_einfo(a, rs)
      [] h = "handle_egquery" -> handle_egquery(a, rs)
      [] h = "handle_espell" -> handle_espell(a, rs)
      [] h = "handle_ecitmatch" -> handle_ecitmatch(a, rs)
      [] h = "handle_search_and_fetch" -> handle_search_and_fetch(a, rs)
      [] h = "handle_get_databases" -> handle_get_databases(a, rs)
      [] h = "handle_server_info" -> handle_server_info(a, rs)

(***************************************************************************)
(* schemas.py: get_tool_schemas.  Of each types.Tool the model keeps its   *)
(* name and the keys its inputSchema declares under "properties".          *)
(***************************************************************************)
Tool(n, properties) == [name |-> n, properties |-> properties]

(* a catalog of the first two tools only *)
get_tool_schemas_short ==
    <<Tool("esearch", {"db", "term"}), Tool("efetch", {"db", "id_list"})>>

get_tool_schemas ==
    <<Tool("esearch", {"db", "term", "retmax", "retstart", "sort", "field",
                       "datetype", "reldate", "mindate", "maxdate",
                       "usehistory"}),
      Tool("efetch", {"db", "id_list", "rettype", "retmode", "retstart",
                      "retmax", "strand", "seq_start", "seq_stop", "webenv",
                      "query_key"}),
      Tool("esummary", {"db", "id_list", "version", "retstart", "retmax",
                        "webenv", "query_key"}),
      Tool("epost", {"db", "id_list", "webenv"}),
      Tool("elink", {"dbfrom", "db", "id_list", "cmd", "linkname", "term",
                     "holding", "webenv", "query_key"}),
      Tool("einfo", {"db", "retmode"}),
      Tool("egquery", {"term"}),
      Tool("espell", {"db", "term"}),
      Tool("ecitmatch", {"citations", "db"}),
      Tool("search_and_fetch", {"db", "term", "retmax", "rettype", "retmode"}),
      Tool("get_databases", {}),
      Tool("server_info", {})>>

(* the "default" entries of the inputSchema of search_and_fetch and of     *)
(* ecitmatch                                                               *)
CatalogDefaults ==
    [search_and_fetch |->
        [retmax |-> PyInt(DefaultRetmax), rettype |-> Text(<<"abstract">>),
         retmode |-> Text(<<"text">>)],
     ecitmatch |-> [db |-> Text(<<"pubmed">>)]]

(* server.py handle_list_tools *)
handle_list_tools == get_tool_schemas

(* dispatch falling back to a default handler for an unknown name *)
dispatch_with_default(n, a, rs) ==
    IF n \notin DOMAIN handlers
    THEN handle_get_databases(a, rs)
    ELSE Apply(handlers[n], a, rs)

dispatch(n, a, rs) ==
    IF n \notin DOMAIN handlers
    THEN Raise(ValueError(<<"Unknown tool: ", n>>))
    ELSE Apply(handlers[n], a, rs)

(***************************************************************************)
(* Requests and collaborator results drawn on                              *)
(***************************************************************************)
Ids(k) == [i \in 1..k |-> <<ToString(i)>>]

IdLists == {PyList(Ids(k)) : k \in 0..MaxIds}

OptSet(vals) == {Absent, None} \cup vals

Dbs == {Text(<<"pubmed">>)}

Terms == {Text(<<"cancer">>), Text(<<"a", "\"", "b">>)}

EsearchRequests ==
    {("db" :> d) @@ ("term" :> t) @@ Opt("retmax", m) @@ Opt("usehistory", u) :
        d \in Dbs, t \in Terms, m \in OptSet({PyInt(5)}),
        u \in OptSet({PyBool(TRUE), PyBool(FALSE)})}

EfetchRequests ==
    {("db" :> d) @@ Opt("webenv", w) @@ Opt("query_key", q) @@ Opt("id_list", i)
     @@ Opt("rettype", r) :
        d \in Dbs, w \in OptSet({Text(<<"WE">>)}), q \in OptSet({PyInt(1)}),
        i \in OptSet(IdLists), r \in OptSet({Text(<<"abstract">>)})}

EsummaryRequests ==
    {("db" :> d) @@ Opt("webenv", w) @@ Opt("query_key", q) @@ Opt("id_list", i)
     @@ Opt("version", r) :
        d \in Dbs, w \in OptSet({Text(<<"WE">>)}), q \in OptSet({PyInt(1)}),
        i \in OptSet(IdLists), r \in OptSet({Text(<<"2.0">>)})}

EpostRequests ==
    {("db" :> d) @@ ("id_list" :> i) @@ Opt("webenv", w) :
        d \in Dbs, i \in {None} \cup IdLists, w \in OptSet({Text(<<"WE">>)})}

ElinkRequests ==
    {("dbfrom" :> Text(<<"protein">>)) @@ ("db" :> d) @@ Opt("webenv", w)
     @@ Opt("query_key", q) @@ Opt("id_list", i) @@ Opt("cmd", r) :
        d \in Dbs, w \in OptSet({Text(<<"WE">>)}), q \in OptSet({PyInt(1)}),
        i \in OptSet(IdLists), r \in OptSet({Text(<<"neighbor">>)})}

EinfoRequests ==
    {Opt("db", d) @@ Opt("retmode", r) :
        d \in OptSet(Dbs \cup {Text(<<>>)}), r \in OptSet({Text(<<"json">>)})}

EgqueryRequests == {("term" :> t) : t \in Terms}

EspellRequests == {("db" :> d) @@ ("term" :> t) : d \in Dbs, t \in Terms}

EcitmatchRequests ==
    {("citations" :> c) @@ Opt("db", d) :
        c \in {None, PyList(<<>>), PyList(<< <<"cit|1">> >>)}, d \in OptSet(Dbs)}

SearchAndFetchRequests ==
    {("db" :> d) @@ ("term" :> t) @@ Opt("retmax", m) @@ Opt("rettype", r)
     @@ Opt("retmode", o) :
        d \in Dbs, t \in Terms, m \in OptSet({PyInt(1)}),
        r \in {Absent, Text(<<"fasta">>)},
        o \in OptSet({Text(<<"text">>), Text(<<"xml">>), Text(<<"json">>),
                      Text(<<"JSON">>)})}

NoArgRequests == {EmptyDict, ("db" :> Text(<<"pubmed">>)), ("junk" :> None)}

UnknownNames == {"unknown-name", "", "efetch2"}

Payloads == {Text(<<"rec">>), Text(<<"{", "\"", "a", "\n">>)}

SearchResults ==
    {Opt("id_list", i) @@ Opt("count", c) :
        i \in OptSet(IdLists), c \in {Absent} \cup {PyInt(n) : n \in 0..MaxCount}}

DatabaseLists == {PyList(<<>>), PyList(<< <<"pubmed">>, <<"protein">> >>)}

Documents == {EmptyDict, ("uid" :> Text(<<"1">>)) @@ ("title" :> Text(<<"a", "\"">>))}

Results(m) ==
    CASE m \in {"efetch.fetch", "efetch.fetch_from_history"} -> Payloads
      [] m \in {"esearch.search", "esearch.search_with_history"} -> SearchResults
      [] m \in {"einfo.get_databases", "get_databases"} -> DatabaseLists
      [] OTHER -> Documents

(***************************************************************************)
(* client.py: NCBIClientManager.  A client is known by its position in the *)
(* sequence of the clients constructed so far; 0 stands for no client.     *)
(***************************************************************************)
Environments == {EmptyDict, ("NCBI_API_KEY" :> Text(<<"K1">>))}

(* NCBIClientManager.__init__ *)
NCBIClientManager(api_key, email, environ) ==
    [api_key |-> IF Truthy(api_key) THEN api_key
                 ELSE Get(environ, "NCBI_API_KEY", None),
     email |-> IF Truthy(email) THEN email
               ELSE Get(environ, "NCBI_EMAIL", Text(<<"ncbi-mcp@example.com">>)),
     tool |-> Text(<<"ncbi-mcp-server">>),
     client |-> 0]

(* NCBIClient(api_key=..., email=..., tool=...) *)
NCBIClient(m) == [api_key |-> m.api_key, email |-> m.email, tool |-> m.tool]

reinitialize(m, api_key, email) ==
    [m EXCEPT !.api_key = IF Truthy(api_key) THEN api_key ELSE @,
              !.email = IF Truthy(email) THEN email ELSE @,
              !.client = 0]

Threads == 1..MaxThreads

Quiescent == \A t \in Threads : threads[t] = "out"

(***************************************************************************)
(* The state machine                                                       *)
(***************************************************************************)
NoOutcome == [status |-> "none", exc |-> NoExc, out |-> None]

(* guard: the latest with ErrorHandler(op) block: the exception its body   *)
(* raised or the value it computed, what left the block and what __exit__  *)
(* logged; decorated is what leaves the same body under handle_ncbi_errors.*)
NoGuard ==
    [op |-> "", raised |-> NoExc, value |-> None, status |-> "none",
     exc |-> NoExc, out |-> None, log |-> <<>>, decorated |-> NoOutcome]

Init ==
    /\ pc = "idle"
    /\ name = ""
    /\ args = EmptyDict
    /\ resps = <<>>
    /\ calls = <<>>
    /\ outcome = NoOutcome
    /\ log = <<>>
    /\ reachable = TRUE
    /\ guard = NoGuard
    /\ listed = <<>>
    /\ client_manager = [NCBIClientManager(None, None, EmptyDict) EXCEPT !.client = 1]
    /\ instances = <<NCBIClient(client_manager)>>
    /\ threads = [t \in Threads |-> "out"]
    /\ tool_handlers = [client |-> 1]
    /\ seen = [accessed |-> TRUE, fresh |-> {1}, returned |-> {1},
               concurrent |-> FALSE, reinits |-> 0, before |-> client_manager,
               asked |-> [api_key |-> None, email |-> None]]
    /\ via = 0

(* run the call to its next step: a collaborator call, made through        *)
(* self.client of the handlers object, or its end                          *)
Advance(step, made, logged) ==
    IF step.k = "call"
    THEN /\ pc' = "waiting"
         /\ calls' = Append(made, [method |-> step.method, pos |-> step.pos,
                                   kw |-> step.kw])
         /\ outcome' = NoOutcome
         /\ log' = logged
         /\ via' = tool_handlers.client
    ELSE /\ pc' = "done"
         /\ calls' = made
         /\ outcome' = [status |-> IF step.k = "return" THEN "ok" ELSE "raise",
                        exc |-> step.exc, out |-> step.out]
         /\ log' = logged \o step.log
         /\ via' = via

(* tool_handlers.dispatch(n, a), up to its first collaborator call; the    *)
(* replies to earlier requests have been handed out                        *)
Start(n, a) ==
    /\ tool_handlers.client # 0
    /\ Quiescent
    /\ name' = n
    /\ args' = a
    /\ resps' = <<>>
    /\ Advance(dispatch(n, a, <<>>), <<>>, <<>>)
    /\ guard' = NoGuard
    /\ listed' = <<>>
    /\ UNCHANGED <<reachable, manager>>

DispatchEsearch ==
    /\ pc = "idle"
    /\ \E a \in EsearchRequests : Start("esearch", a)

DispatchEfetch ==
    /\ pc = "idle"
    /\ \E a \in EfetchRequests : Start("efetch", a)

DispatchEsummary ==
    /\ pc = "idle"
    /\ \E a \in EsummaryRequests : Start("esummary", a)

DispatchEpost ==
    /\ pc = "idle"
    /\ \E a \in EpostRequests : Start("epost", a)

DispatchElink ==
    /\ pc = "idle"
    /\ \E a \in ElinkRequests : Start("elink", a)

DispatchEinfo ==
    /\ pc = "idle"
    /\ \E a \in EinfoRequests : Start("einfo", a)

DispatchEgquery ==
    /\ pc = "idle"
    /\ \E a \in EgqueryRequests : Start("egquery", a)

DispatchEspell ==
    /\ pc = "idle"
    /\ \E a \in EspellRequests : Start("espell", a)

DispatchEcitmatch ==
    /\ pc = "idle"
    /\ \E a \in EcitmatchRequests : Start("ecitmatch", a)

DispatchSearchAndFetch ==
    /\ pc = "idle"
    /\ \E a \in SearchAndFetchRequests : Start("search_and_fetch", a)

DispatchGetDatabases ==
    /\ pc = "idle"
    /\ \E a \in NoArgRequests : Start("get_databases", a)

DispatchServerInfo ==
    /\ pc = "idle"
    /\ \E a \in NoArgRequests : Start("server_info", a)

DispatchUnknown ==
    /\ pc = "idle"
    /\ \E n \in UnknownNames, a \in NoArgRequests : Start(n, a)

(* the pending collaborator call answers; the handler runs on *)
Resume(r) ==
    /\ pc = "waiting"
    /\ resps' = Append(resps, r)
    /\ Advance(dispatch(name, args, Append(resps, r)), calls, log)
    /\ UNCHANGED <<name, args, reachable, guard, listed, manager>>

CollaboratorReturns ==
    /\ pc = "waiting"
    /\ reachable
    /\ \E v \in Results(calls[Len(calls)].method) :
          Resume([ok |-> TRUE, val |-> v, exc |-> NoExc])

CollaboratorRaises ==
    /\ pc = "waiting"
    /\ \E e \in CollaboratorFailures :
          /\ (~reachable => "NetworkError" \in e.bases)
          /\ Resume([ok |-> FALSE, val |-> None, exc |-> e])

(* server.py handle_call_tool hands the result, or the failure, to the     *)
(* caller; nothing of the call is kept                                     *)
Deliver ==
    /\ pc = "done"
    /\ pc' = "idle"
    /\ name' = ""
    /\ args' = EmptyDict
    /\ resps' = <<>>
    /\ calls' = <<>>
    /\ outcome' = NoOutcome
    /\ log' = <<>>
    /\ via' = 0
    /\ UNCHANGED <<reachable, guard, listed, manager>>

(* the provider becomes unreachable, or reachable again *)
NetworkChange ==
    /\ reachable' = ~reachable
    /\ UNCHANGED <<pc, name, args, resps, calls, outcome, log, guard, listed, manager, via>>

(* what the body of a with ErrorHandler(op) block does: it ends normally   *)
(* or raises a collaborator failure or an exception of its own             *)
OperationNames == {"esearch", "fetch records"}

(* a failure of a class that derives from two of the specific classes *)
ThrottledConnectionError(msg) ==
    Exception("ThrottledConnectionError",
              {"NetworkError", "RateLimitError", "NCBIError"}, msg)

BodyFailures ==
    CollaboratorFailures
    \cup {KeyError("id_list"), ThrottledConnectionError(<<"boom">>)}

(* what leaves a step: returned value or raised exception *)
Left(step) ==
    [status |-> IF step.k = "raise" THEN "raise" ELSE "ok",
     exc |-> step.exc, out |-> step.out]

(* with ErrorHandler(op): body *)
GuardedBlock ==
    /\ pc = "idle"
    /\ \E op \in OperationNames,
          body \in {Return(None), Return(Text(<<"rec">>))}
                   \cup {Raise(e) : e \in BodyFailures} :
          LET step == ErrorHandler_exit(op, body) IN
          guard' = [op |-> op, raised |-> body.exc, value |-> body.out,
                    status |-> Left(step).status,
                    exc |-> step.exc, out |-> step.out, log |-> step.log,
                    decorated |-> Left(handle_ncbi_errors(body))]
    /\ UNCHANGED <<pc, name, args, resps, calls, outcome, log, reachable, listed, manager, via>>

(* server.py handle_list_tools answers a tools/list request *)
ListTools ==
    /\ pc = "idle"
    /\ Len(listed) < MaxLists
    /\ listed' = Append(listed, handle_list_tools)
    /\ UNCHANGED <<pc, name, args, resps, calls, outcome, log, reachable, guard, manager, via>>

Next ==
    \/ DispatchEsearch
    \/ DispatchEfetch
    \/ DispatchEsummary
    \/ DispatchEpost
    \/ DispatchElink
    \/ DispatchEinfo
    \/ DispatchEgquery
    \/ DispatchEspell
    \/ DispatchEcitmatch
    \/ DispatchSearchAndFetch
    \/ DispatchGetDatabases
    \/ DispatchServerInfo
    \/ DispatchUnknown
    \/ CollaboratorReturns
    \/ CollaboratorRaises
    \/ Deliver
    \/ NetworkChange
    \/ GuardedBlock
    \/ ListTools

Spec == Init /\ [][Next]_vars

(***************************************************************************)
(* The client manager under threads.  The client property runs in three    *)
(* steps: the test self._client is None, the construction and assignment,  *)
(* and the return of self._client.                                         *)
(***************************************************************************)
dispatching == <<pc, name, args, resps, calls, outcome, log, reachable, guard,
                 listed, via>>

(* client.py:54, client_manager = NCBIClientManager(): nothing accessed yet *)
InitManager ==
    /\ pc = "idle"
    /\ name = ""
    /\ args = EmptyDict
    /\ resps = <<>>
    /\ calls = <<>>
    /\ outcome = NoOutcome
    /\ log = <<>>
    /\ reachable = TRUE
    /\ guard = NoGuard
    /\ listed = <<>>
    /\ \E environ \in Environments :
          client_manager = NCBIClientManager(None, None, environ)
    /\ instances = <<>>
    /\ threads = [t \in Threads |-> "out"]
    /\ tool_handlers = [client |-> 0]
    /\ seen = [accessed |-> FALSE, fresh |-> {}, returned |-> {},
               concurrent |-> FALSE, reinits |-> 0, before |-> client_manager,
               asked |-> [api_key |-> None, email |-> None]]
    /\ via = 0

(* if self._client is None *)
EnterClient(t) ==
    /\ pc = "idle"
    /\ threads[t] = "out"
    /\ threads' = [threads EXCEPT ![t] =
                      IF client_manager.client = 0 THEN "create" ELSE "return"]
    /\ seen' = [seen EXCEPT !.accessed = TRUE, !.concurrent = @ \/ ~Quiescent]
    /\ UNCHANGED <<client_manager, instances, tool_handlers, dispatching>>

(* self._client = NCBIClient(...) *)
CreateClient(t) ==
    /\ threads[t] = "create"
    /\ Len(instances) < MaxClients
    /\ instances' = Append(instances, NCBIClient(client_manager))
    /\ client_manager' = [client_manager EXCEPT !.client = Len(instances) + 1]
    /\ threads' = [threads EXCEPT ![t] = "return"]
    /\ seen' = [seen EXCEPT !.fresh = @ \cup {Len(instances) + 1}]
    /\ UNCHANGED <<tool_handlers, dispatching>>

(* return self._client *)
ReturnClient(t) ==
    /\ threads[t] = "return"
    /\ threads' = [threads EXCEPT ![t] = "out"]
    /\ seen' = [seen EXCEPT !.returned = @ \cup {client_manager.client}]
    /\ UNCHANGED <<client_manager, instances, tool_handlers, dispatching>>

Enter == \E t \in Threads : EnterClient(t)

Create == \E t \in Threads : CreateClient(t)

Leave == \E t \in Threads : ReturnClient(t)

(* client_manager.reinitialize(api_key, email), called while no thread is  *)
(* inside the client property and no tool call is running                  *)
Keys == {None, Text(<<>>), Text(<<"K2">>)}

Emails == {None, Text(<<"E2">>)}

Reinitialize ==
    /\ pc = "idle"
    /\ Quiescent
    /\ seen.reinits < MaxReinits
    /\ \E api_key \in Keys, email \in Emails :
          /\ client_manager' = reinitialize(client_manager, api_key, email)
          /\ seen' = [seen EXCEPT !.fresh = {}, !.returned = {},
                                  !.reinits = @ + 1,
                                  !.before = client_manager,
                                  !.asked = [api_key |-> api_key, email |-> email]]
    /\ UNCHANGED <<instances, threads, tool_handlers, dispatching>>

(* handlers.py:314, tool_handlers = NCBIToolHandlers(): __init__ keeps the  *)
(* client that get_ncbi_client() returns, read or constructed in one go    *)
ImportHandlers ==
    /\ pc = "idle"
    /\ Quiescent
    /\ tool_handlers.client = 0
    /\ IF client_manager.client = 0
       THEN /\ Len(instances) < MaxClients
            /\ instances' = Append(instances, NCBIClient(client_manager))
            /\ client_manager' = [client_manager EXCEPT !.client = Len(instances) + 1]
            /\ tool_handlers' = [client |-> Len(instances) + 1]
            /\ seen' = [seen EXCEPT !.accessed = TRUE,
                                    !.fresh = @ \cup {Len(instances) + 1},
                                    !.returned = @ \cup {Len(instances) + 1}]
       ELSE /\ tool_handlers' = [client |-> client_manager.client]
            /\ seen' = [seen EXCEPT !.accessed = TRUE,
                                    !.returned = @ \cup {client_manager.client}]
            /\ UNCHANGED <<client_manager, instances>>
    /\ UNCHANGED <<threads, dispatching>>

NextManager ==
    \/ Enter
    \/ Create
    \/ Leave
    \/ Reinitialize
    \/ ImportHandlers
    \/ DispatchGetDatabases
    \/ CollaboratorReturns
    \/ CollaboratorRaises
    \/ Deliver

ManagerSpec == InitManager /\ [][NextManager]_vars

(***************************************************************************)
(* Properties                                                              *)
(***************************************************************************)
Alternate == {"efetch", "esummary", "elink"}

HistoryMethod ==
    [efetch |-> "efetch.fetch_from_history",
     esummary |-> "esummary.summary_from_history",
     elink |-> "elink.link_from_history"]

DirectMethod ==
    [efetch |-> "efetch.fetch", esummary |-> "esummary.summary",
     elink |-> "elink.link"]

Running == pc \in {"waiting", "done"}

(* the kind of failure the caller sees *)
FailureKind(o) ==
    IF o.status # "raise" THEN "none"
    ELSE IF o.exc.cls = "ValueError" THEN "ValidationError"
    ELSE IF o.exc.cls # "RuntimeError" \/ o.exc.msg = <<>> THEN "raw"
    ELSE IF o.exc.msg[1] = "NCBI rate limit exceeded: " THEN "RateLimited"
    ELSE IF o.exc.msg[1] = "NCBI authentication failed: " THEN "AuthenticationFailed"
    ELSE IF o.exc.msg[1] = "NCBI network error: " THEN "NetworkFailure"
    ELSE IF o.exc.msg[1] = "NCBI error: " THEN "ProviderError"
    ELSE IF o.exc.msg[1] = "Unexpected error: " THEN "Unexpected"
    ELSE "raw"

NormalizedKinds ==
    {"RateLimited", "AuthenticationFailed", "NetworkFailure", "ProviderError",
     "Unexpected"}

HasIds(kw) == "id_list" \in DOMAIN kw /\ kw["id_list"] # None

HasHistory(kw) ==
    /\ "webenv" \in DOMAIN kw /\ kw["webenv"] # None
    /\ "query_key" \in DOMAIN kw /\ kw["query_key"] # None

(* C1: efetch, esummary and elink given webenv, query_key and id_list      *)
(* together make their one collaborator call through the history variant,  *)
(* with the supplied webenv and query_key, never the direct variant.       *)
C1_HistoryTakesPrecedence ==
    (Running /\ name \in Alternate
       /\ {"webenv", "query_key", "id_list"} \subseteq DOMAIN args)
    => /\ Len(calls) = 1
       /\ calls[1].method = HistoryMethod[name]
       /\ calls[1].kw["webenv"] = args["webenv"]
       /\ calls[1].kw["query_key"] = args["query_key"]

C1_Witness ==
    /\ pc = "done" /\ name = "efetch" /\ outcome.status = "ok"
    /\ {"webenv", "query_key", "id_list"} \subseteq DOMAIN args
    /\ Truthy(args["webenv"]) /\ Truthy(args["id_list"])
    /\ calls[1].method = "efetch.fetch_from_history"

(* C2: in every collaborator call of efetch, esummary and elink the two    *)
(* addressing groups are exclusive: a history call carries no id_list and  *)
(* a direct call carries neither webenv nor query_key.                     *)
C2_GroupsExclusive ==
    name \in Alternate =>
      \A i \in 1..Len(calls) :
        /\ calls[i].method = HistoryMethod[name]
             => "id_list" \notin DOMAIN calls[i].kw
        /\ calls[i].method = DirectMethod[name]
             => /\ "webenv" \notin DOMAIN calls[i].kw
                /\ "query_key" \notin DOMAIN calls[i].kw

(* C3: efetch, esummary and elink given neither a complete webenv and      *)
(* query_key pair nor id_list fail with a validation failure, which is not *)
(* of the Unexpected kind.                                                 *)
C3_MissingAddressingIsValidation ==
    (pc = "done" /\ name \in Alternate
       /\ ~({"webenv", "query_key"} \subseteq DOMAIN args)
       /\ "id_list" \notin DOMAIN args)
    => /\ outcome.status = "raise"
       /\ FailureKind(outcome) = "ValidationError"

(* C4: every request to efetch, esummary or elink either reaches the       *)
(* collaborator with exactly one complete addressing group (a non-null     *)
(* id_list, or non-null webenv and query_key) or is rejected with no       *)
(* collaborator call.                                                      *)
C4_OneGroupOrRejected ==
    (Running /\ name \in Alternate)
    => \/ /\ Len(calls) = 1
          /\ HasIds(calls[1].kw) # HasHistory(calls[1].kw)
       \/ /\ calls = <<>>
          /\ pc = "done"
          /\ outcome.status = "raise"

(* C5: dispatch of a name that is not registered fails, whatever the       *)
(* arguments, with a validation failure whose message carries the name;    *)
(* no handler runs and no collaborator call is made.                       *)
C5_UnknownOperationRejected ==
    (pc # "idle" /\ name \notin DOMAIN handlers)
    => /\ pc = "done"
       /\ outcome.status = "raise"
       /\ FailureKind(outcome) = "ValidationError"
       /\ \E i \in 1..Len(outcome.exc.msg) : outcome.exc.msg[i] = name
       /\ calls = <<>>
       /\ resps = <<>>
       /\ log = <<>>

C5_Witness ==
    /\ pc = "done" /\ name = "unknown-name" /\ args # EmptyDict
    /\ outcome.exc.msg = <<"Unknown tool: ", "unknown-name">>

(* the search step of search_and_fetch returned no identifiers *)
EmptySearch ==
    /\ name = "search_and_fetch"
    /\ Len(resps) >= 1
    /\ resps[1].ok
    /\ \/ "id_list" \notin DOMAIN resps[1].val
       \/ resps[1].val["id_list"] = None
       \/ resps[1].val["id_list"] = PyList(<<>>)

(* C6 as stated: on a search without identifiers search_and_fetch succeeds *)
(* with exactly "no results for query: <term>" and makes no fetch call.    *)
C6_NoResultsAsStated ==
    EmptySearch
    => /\ pc = "done"
       /\ outcome.status = "ok"
       /\ outcome.out = Text(<<"no results for query: ">> \o args["term"].s)
       /\ Len(calls) = 1

(* C6 amended: on a search without identifiers (id_list empty, null or     *)
(* absent) search_and_fetch succeeds with exactly                          *)
(* "No results found for query: <term>" and makes no fetch call.           *)
C6_NoResults ==
    EmptySearch
    => /\ pc = "done"
       /\ outcome.status = "ok"
       /\ outcome.out = Text(<<"No results found for query: ">> \o args["term"].s)
       /\ Len(calls) = 1
       /\ calls[1].method = "esearch.search"

C6_Witness ==
    /\ EmptySearch /\ pc = "done"
    /\ "id_list" \in DOMAIN resps[1].val
    /\ resps[1].val["id_list"] = None
    /\ args["term"] = Text(<<"a", "\"", "b">>)

(* C7: search_and_fetch issues exactly one search, first; a fetch at most  *)
(* once, only after the search returned a non-empty identifier list, and   *)
(* for exactly that list; after a failed or empty search no fetch; and a   *)
(* failure of either step reaches the caller as a normalized failure.      *)
C7_SearchThenFetch ==
    (Running /\ name = "search_and_fetch")
    => /\ Len(calls) \in {1, 2}
       /\ calls[1].method = "esearch.search"
       /\ Len(calls) = 2
            => /\ calls[2].method = "efetch.fetch"
               /\ Len(resps) >= 1
               /\ resps[1].ok
               /\ ~EmptySearch
               /\ calls[2].kw["id_list"] = resps[1].val["id_list"]
       /\ (Len(resps) >= 1 /\ (~resps[1].ok \/ EmptySearch))
            => Len(calls) = 1 /\ pc = "done"
       /\ \A i \in 1..Len(resps) :
            ~resps[i].ok
            => /\ pc = "done"
               /\ i = Len(resps)
               /\ outcome.status = "raise"
               /\ outcome.exc.cls = "RuntimeError"
               /\ FailureKind(outcome) \in NormalizedKinds

C7_Witness ==
    /\ name = "search_and_fetch" /\ pc = "done"
    /\ Len(calls) = 2 /\ Len(resps) = 2
    /\ Len(calls[2].kw["id_list"].l) = 2
    /\ ~resps[2].ok
    /\ FailureKind(outcome) = "NetworkFailure"

(* the decimal text of a small int, read back *)
IntOf(v) == CHOOSE n \in 0..(DefaultRetmax + MaxCount + MaxIds) : ToString(n) = v.s[1]

Min(x, y) == IF x <= y THEN x ELSE y

RequestedRetmode == Get(args, "retmode", Text(<<"text">>))

(* search_and_fetch ran both steps successfully *)
BothStepsDone ==
    /\ name = "search_and_fetch" /\ pc = "done"
    /\ Len(resps) = 2 /\ resps[1].ok /\ resps[2].ok

StructuredMode ==
    RequestedRetmode.t = "str" /\ RequestedRetmode.s \in {<<"json">>, <<"JSON">>}

(* C8 as stated: in structured mode the result parses as a JSON object     *)
(* with search_info.query the term, total_found the count reported,        *)
(* returned = min(matches, retmax), and records the fetch payload.         *)
C8_StructuredAsStated ==
    (BothStepsDone /\ StructuredMode
       /\ "count" \in DOMAIN resps[1].val
       /\ Get(args, "retmax", PyInt(DefaultRetmax)).t = "int")
    => /\ outcome.status = "ok"
       /\ LET j == json_loads(outcome.out.s)
              matches == IntOf(resps[1].val["count"])
              retmax == IntOf(Get(args, "retmax", PyInt(DefaultRetmax)))
          IN  /\ j["search_info"]["query"] = args["term"]
              /\ j["search_info"]["total_found"] = resps[1].val["count"]
              /\ j["search_info"]["returned"] = PyInt(Min(matches, retmax))
              /\ j["records"] = resps[2].val

(* C8 amended: in structured mode the result parses as one JSON object     *)
(* with search_info.query the term, total_found the count the search       *)
(* reported (0 when it reported none), returned the number of identifiers  *)
(* the search returned, and records the fetch payload.                     *)
C8_Structured ==
    (BothStepsDone /\ StructuredMode)
    => /\ outcome.status = "ok"
       /\ LET j == json_loads(outcome.out.s)
          IN  /\ DOMAIN j = {"search_info", "records"}
              /\ DOMAIN j["search_info"] = {"query", "total_found", "returned"}
              /\ j["search_info"]["query"] = args["term"]
              /\ j["search_info"]["total_found"]
                   = (IF "count" \in DOMAIN resps[1].val
                      THEN resps[1].val["count"] ELSE PyInt(0))
              /\ j["search_info"]["returned"]
                   = PyInt(Len(resps[1].val["id_list"].l))
              /\ j["records"] = resps[2].val

C8_Witness ==
    /\ BothStepsDone /\ RequestedRetmode = Text(<<"JSON">>)
    /\ args["term"] = Text(<<"a", "\"", "b">>)
    /\ resps[1].val["id_list"] = PyList(<< <<"1">> >>)
    /\ "count" \in DOMAIN resps[1].val /\ resps[1].val["count"] = PyInt(2)
    /\ resps[2].val = Text(<<"{", "\"", "a", "\n">>)

C10_ServerInfoIsPure ==
    (pc # "idle" /\ name = "server_info")
    => /\ pc = "done"
       /\ calls = <<>>
       /\ resps = <<>>
       /\ outcome.status = "ok"
       /\ outcome.out.t = "str"
       /\ json_loads(outcome.out.s) =
            [server_name |-> Text(<<"NCBI-MCP Server">>), version |-> Text(<<"0.1.0">>)]

C10_Witness ==
    /\ pc = "done" /\ name = "server_info" /\ ~reachable
    /\ args # EmptyDict /\ outcome.status = "ok"

(***************************************************************************)
(* Failure normalization                                                   *)
(***************************************************************************)
(* the handlers under the decorator: all but handle_server_info *)
Wrapped == DOMAIN handlers \ {"server_info"}

(* the normalized kind a failure of the collaborator is to be reported as *)
KindOf(e) ==
    IF e.cls = "RateLimitError" THEN "RateLimited"
    ELSE IF e.cls = "AuthenticationError" THEN "AuthenticationFailed"
    ELSE IF e.cls = "NetworkError" THEN "NetworkFailure"
    ELSE IF e.cls = "NCBIError" THEN "ProviderError"
    ELSE "Unexpected"

(* sub occurs in the string m *)
Contains(m, sub) ==
    \E i \in 1..(Len(m) + 1) : SubSeq(m, i, i + Len(sub) - 1) = sub

(* the kind of failure that left a with ErrorHandler(op) block *)
GuardKind(g) ==
    IF g.status # "raise" THEN "none"
    ELSE IF g.exc.cls # "RuntimeError" \/ g.exc.msg = <<>> THEN "raw"
    ELSE IF g.exc.msg[1] = "NCBI rate limit exceeded in " THEN "RateLimited"
    ELSE IF g.exc.msg[1] = "NCBI authentication failed in " THEN "AuthenticationFailed"
    ELSE IF g.exc.msg[1] = "NCBI network error in " THEN "NetworkFailure"
    ELSE IF g.exc.msg[1] = "NCBI error in " THEN "ProviderError"
    ELSE IF g.exc.msg[1] = "Unexpected error in " THEN "Unexpected"
    ELSE "raw"

(* the latest answer of the collaborator was a failure *)
CollaboratorFailed == resps # <<>> /\ ~resps[Len(resps)].ok

(* C11: a failure of the collaborator in a wrapped handler, or in the body *)
(* of a with ErrorHandler block, ends the operation at once with exactly   *)
(* one RuntimeError of the kind that matches the failure's class           *)
(* (rate-limit, authentication, network, provider, and unexpected for any  *)
(* other class), and its message contains the original message.            *)
C11_FailureClassified ==
    /\ (name \in Wrapped /\ CollaboratorFailed)
       => /\ pc = "done"
          /\ Len(calls) = Len(resps)
          /\ \A i \in 1..(Len(resps) - 1) : resps[i].ok
          /\ outcome.status = "raise"
          /\ outcome.exc.cls = "RuntimeError"
          /\ FailureKind(outcome) = KindOf(resps[Len(resps)].exc)
          /\ Contains(outcome.exc.msg, resps[Len(resps)].exc.msg)
    /\ (guard.status # "none" /\ guard.raised \in CollaboratorFailures)
       => /\ guard.status = "raise"
          /\ guard.exc.cls = "RuntimeError"
          /\ GuardKind(guard) = KindOf(guard.raised)
          /\ Contains(guard.exc.msg, guard.raised.msg)

C11_Witness ==
    /\ pc = "done" /\ name = "search_and_fetch" /\ Len(resps) = 2
    /\ resps[1].ok
    /\ resps[2].exc.cls = "RateLimitError"
    /\ resps[2].exc.msg = <<"HTTP 429", "\n">>
    /\ outcome.exc.msg = <<"NCBI rate limit exceeded: ", "HTTP 429", "\n">>

(* the texts that open a message of the form                               *)
(* "<classified-kind> in <context>: <original message>"                    *)
KindInPrefixes ==
    {"NCBI rate limit exceeded in ", "NCBI authentication failed in ",
     "NCBI network error in ", "NCBI error in ", "Unexpected error in "}

HasContextForm(m, original) ==
    /\ Len(m) >= 3
    /\ m[1] \in KindInPrefixes
    /\ m[2] # ""
    /\ m[3] = ": "
    /\ SubSeq(m, 4, Len(m)) = original

(* C12: every normalized failure, from the decorator or from ErrorHandler, *)
(* carries a message of the form                                           *)
(* "<classified-kind> in <context>: <original message>".                   *)
C12_MessageNamesContext ==
    /\ (pc = "done" /\ name \in Wrapped /\ CollaboratorFailed)
       => HasContextForm(outcome.exc.msg, resps[Len(resps)].exc.msg)
    /\ (guard.status = "raise")
       => HasContextForm(guard.exc.msg, guard.raised.msg)

(* C13: a failure that leaves dispatch for a registered name is a          *)
(* RuntimeError of one of the five normalized kinds, whether the exception *)
(* came from the collaborator or from the handler body; it is never of a   *)
(* collaborator class nor a raw KeyError, TypeError or AttributeError.     *)
C13_OnlyNormalizedFailures ==
    (pc = "done" /\ name \in DOMAIN handlers /\ outcome.status = "raise")
    => /\ outcome.exc.cls = "RuntimeError"
       /\ outcome.exc.bases = {"RuntimeError", "Exception"}
       /\ FailureKind(outcome) \in NormalizedKinds

C13_Witness ==
    /\ pc = "done" /\ name = "efetch" /\ calls = <<>>
    /\ "id_list" \notin DOMAIN args
    /\ outcome.status = "raise"
    /\ outcome.exc.msg = <<"Unexpected error: ", "'", "id_list", "'">>

(* the level the normalizer is to log a failure of the given kind at *)
LevelOf(kind) == IF kind = "RateLimited" THEN "warning" ELSE "error"

(* C14: the normalizer, decorator or ErrorHandler, logs exactly one record *)
(* for a failure it catches, at warning level for a rate-limit failure and *)
(* at error level for any other, and logs nothing on success.              *)
C14_LogLevelMatchesKind ==
    /\ (pc = "done" /\ name \in Wrapped)
       => IF outcome.status = "raise"
          THEN /\ Len(log) = 1
               /\ log[1].level = LevelOf(FailureKind(outcome))
          ELSE log = <<>>
    /\ (guard.status # "none")
       => IF guard.status = "raise"
          THEN /\ Len(guard.log) = 1
               /\ guard.log[1].level = LevelOf(GuardKind(guard))
          ELSE guard.log = <<>>

(***************************************************************************)
(* Validation and pass-through of arguments                                *)
(***************************************************************************)
(* the request addresses its records by an empty identifier list *)
EmptyIdList ==
    /\ "id_list" \in DOMAIN args
    /\ args["id_list"] = PyList(<<>>)
    /\ \/ name = "epost"
       \/ name \in Alternate /\ ~({"webenv", "query_key"} \subseteq DOMAIN args)

(* C15: efetch, esummary and elink in direct mode, and epost, given an     *)
(* empty id_list fail with a validation failure and make no collaborator   *)
(* call.                                                                   *)
C15_EmptyIdListRejected ==
    (Running /\ EmptyIdList)
    => /\ pc = "done"
       /\ calls = <<>>
       /\ outcome.status = "raise"
       /\ FailureKind(outcome) = "ValidationError"

(* the keys the catalog declares for the operation n *)
Declared(n) ==
    UNION {get_tool_schemas[i].properties :
             i \in {j \in 1..Len(get_tool_schemas) : get_tool_schemas[j].name = n}}

(* the keys the addressing decision consumes *)
AddressingKeys(n) ==
    IF n \in Alternate THEN {"id_list", "webenv", "query_key"} ELSE {}

(* the call c carries the value v, under the key k or by position *)
Passed(c, k, v) ==
    \/ k \in DOMAIN c.kw /\ c.kw[k] = v
    \/ \E i \in 1..Len(c.pos) : c.pos[i] = v

(* the call c carries a null outside the addressing keys of operation n *)
NullPassed(c, n) ==
    \/ \E k \in DOMAIN c.kw \ AddressingKeys(n) : c.kw[k] = None
    \/ \E i \in 1..Len(c.pos) : c.pos[i] = None

(* C16: in every collaborator call of a single-call operation each         *)
(* declared argument that addressing does not consume and whose value is   *)
(* not null is passed with the same value, and no collaborator call of any *)
(* operation is passed a null argument (the addressing keys aside).        *)
C16_PassThrough ==
    name \in DOMAIN handlers =>
      \A i \in 1..Len(calls) :
        /\ ~NullPassed(calls[i], name)
        /\ name # "search_and_fetch"
           => \A k \in (DOMAIN args \cap Declared(name)) \ AddressingKeys(name) :
                 args[k] # None => Passed(calls[i], k, args[k])

(***************************************************************************)
(* The catalog                                                             *)
(***************************************************************************)
Names(catalog) == {catalog[i].name : i \in 1..Len(catalog)}

(* C17: every tools/list reply is the same catalog in the same order, no   *)
(* name occurs in it twice, and its names are exactly the names dispatch   *)
(* accepts: dispatch answers "Unknown tool" for the other names only.      *)
C17_CatalogMatchesDispatch ==
    /\ \A i \in 1..Len(listed) :
         /\ listed[i] = listed[1]
         /\ \A j, k \in 1..Len(listed[i]) :
              listed[i][j].name = listed[i][k].name => j = k
         /\ Names(listed[i]) = DOMAIN handlers
    /\ pc = "done"
       => (name \in Names(handle_list_tools)
             <=> ~(outcome.exc.cls = "ValueError"
                    /\ outcome.exc.msg[1] = "Unknown tool: "))

C17_Witness ==
    /\ Len(listed) = 2
    /\ Len(listed[2]) = 12
    /\ listed[1][1].name = "esearch"
    /\ listed[2][12].name = "server_info"

(***************************************************************************)
(* Serialization of results                                                *)
(***************************************************************************)
JsonOperations ==
    {"esearch", "esummary", "epost", "elink", "egquery", "espell", "ecitmatch"}

(* the one collaborator call of the operation has returned *)
OneCallReturned == pc = "done" /\ Len(resps) = 1 /\ resps[1].ok

(* C19: efetch returns the collaborator's payload unchanged, in history    *)
(* mode and in direct mode; esearch, esummary, epost, elink, egquery,      *)
(* espell and ecitmatch return a string that parses as JSON to the value   *)
(* the collaborator returned.                                              *)
C19_ResultSerialization ==
    /\ (OneCallReturned /\ name = "efetch")
       => /\ outcome.status = "ok"
          /\ outcome.out = resps[1].val
    /\ (OneCallReturned /\ name \in JsonOperations)
       => /\ outcome.status = "ok"
          /\ outcome.out.t = "str"
          /\ json_loads(outcome.out.s) = resps[1].val

C19_Witness ==
    /\ OneCallReturned /\ name = "esummary"
    /\ calls[1].method = "esummary.summary_from_history"
    /\ Truthy(args["webenv"]) /\ Truthy(args["query_key"])
    /\ resps[1].val = ("uid" :> Text(<<"1">>)) @@ ("title" :> Text(<<"a", "\"">>))
    /\ outcome.out.s # <<>>

(***************************************************************************)
(* einfo                                                                   *)
(***************************************************************************)
(* what einfo does in the list-all branch and in the one-database branch *)
EinfoLists ==
    /\ Len(calls) = 1
    /\ calls[1].method = "einfo.get_databases"
    /\ calls[1].pos = <<>>
    /\ OneCallReturned
       => /\ outcome.status = "ok"
          /\ json_loads(outcome.out.s) = ("databases" :> resps[1].val)

EinfoDescribes ==
    /\ Len(calls) = 1
    /\ calls[1].method = "einfo.get_database_info"
    /\ calls[1].pos = <<args["db"]>>
    /\ OneCallReturned
       => /\ outcome.status = "ok"
          /\ json_loads(outcome.out.s) = resps[1].val

(* C20 as stated: einfo branches on the presence of db: without db (or     *)
(* with a null db) it lists all databases, with any db it asks for that    *)
(* database's information; one call, never both.                           *)
C20_SelectsByPresence ==
    (Running /\ name = "einfo")
    => IF "db" \in DOMAIN args /\ args["db"] # None
       THEN EinfoDescribes
       ELSE EinfoLists

(* C20 amended: einfo branches on the truth value of db: with db omitted,  *)
(* null or the empty string it makes exactly one call listing all          *)
(* databases and returns a JSON object whose "databases" member is that    *)
(* list; with a non-empty db it makes exactly one call for that database's *)
(* information and returns it serialized as JSON; never both.              *)
C20_SelectsByTruth ==
    (Running /\ name = "einfo")
    => IF "db" \in DOMAIN args /\ Truthy(args["db"])
       THEN EinfoDescribes
       ELSE EinfoLists

C20_Witness ==
    /\ OneCallReturned /\ name = "einfo"
    /\ "db" \in DOMAIN args /\ args["db"] = Text(<<>>)
    /\ calls[1].method = "einfo.get_databases"
    /\ resps[1].val = PyList(<< <<"pubmed">>, <<"protein">> >>)

(***************************************************************************)
(* Dispatch and the handlers                                               *)
(***************************************************************************)
(* calling the handler of the operation n directly *)
Direct(n, a, rs) ==
    CASE n = "esearch" -> handle_esearch(a, rs)
      [] n = "efetch" -> handle_efetch(a, rs)
      [] n = "esummary" -> handle_esummary(a, rs)
      [] n = "epost" -> handle_epost(a, rs)
      [] n = "elink" -> handle_elink(a, rs)
      [] n = "einfo" -> handle_einfo(a, rs)
      [] n = "egquery" -> handle_egquery(a, rs)
      [] n = "espell" -> handle_espell(a, rs)
      [] n = "ecitmatch" -> handle_ecitmatch(a, rs)
      [] n = "search_and_fetch" -> handle_search_and_fetch(a, rs)
      [] n = "get_databases" -> handle_get_databases(a, rs)
      [] n = "server_info" -> handle_server_info(a, rs)

AsCall(step) == [method |-> step.method, pos |-> step.pos, kw |-> step.kw]

(* C21: dispatch of a registered name runs the handler registered for that *)
(* name once: its collaborator calls are, one for one, the calls of that   *)
(* handler called directly with the same arguments, and it returns the     *)
(* same string or raises the same failure.                                 *)
C21_DispatchIsDirectCall ==
    (Running /\ name \in DOMAIN handlers)
    => LET step == Direct(name, args, resps) IN
       /\ \A i \in 1..Len(calls) :
            LET earlier == Direct(name, args, SubSeq(resps, 1, i - 1))
            IN  earlier.k = "call" /\ calls[i] = AsCall(earlier)
       /\ IF step.k = "call"
          THEN pc = "waiting" /\ Len(calls) = Len(resps) + 1
          ELSE /\ pc = "done"
               /\ Len(calls) = Len(resps)
               /\ outcome.status = (IF step.k = "return" THEN "ok" ELSE "raise")
               /\ outcome.out = step.out
               /\ outcome.exc = step.exc

C21_Witness ==
    /\ pc = "done" /\ name = "get_databases" /\ args = EmptyDict
    /\ outcome.status = "ok"
    /\ resps[1].val = PyList(<< <<"pubmed">>, <<"protein">> >>)

(* C22: get_databases returns a JSON object whose available_databases     *)
(* member is the list the collaborator returned and whose count member is  *)
(* the length of that list, the empty list included.                       *)
C22_DatabasesAndCount ==
    (OneCallReturned /\ name = "get_databases")
    => /\ outcome.status = "ok"
       /\ outcome.out.t = "str"
       /\ json_loads(outcome.out.s) =
            ("available_databases" :> resps[1].val)
            @@ ("count" :> PyInt(Len(resps[1].val.l)))

C22_Witness ==
    /\ OneCallReturned /\ name = "get_databases"
    /\ resps[1].val = PyList(<<>>)
    /\ outcome.status = "ok"

(* the value the collaborator is to receive for the optional key k *)
GivenOrDefault(k) ==
    IF k \in DOMAIN args THEN args[k] ELSE CatalogDefaults[name][k]

(* C23: search_and_fetch searches with the retmax of the request and       *)
(* fetches with its rettype and retmode, and ecitmatch matches against its *)
(* db; for each of these that the request leaves out the call carries the  *)
(* default the catalog declares (10, "abstract", "text", "pubmed").        *)
C23_DefaultsApplied ==
    /\ (name = "search_and_fetch" /\ Len(calls) >= 1)
       => calls[1].kw["retmax"] = GivenOrDefault("retmax")
    /\ (name = "search_and_fetch" /\ Len(calls) >= 2)
       => /\ calls[2].kw["rettype"] = GivenOrDefault("rettype")
          /\ calls[2].kw["retmode"] = GivenOrDefault("retmode")
    /\ (name = "ecitmatch" /\ Len(calls) >= 1)
       => calls[1].kw["db"] = GivenOrDefault("db")

C23_Witness ==
    /\ BothStepsDone /\ outcome.status = "ok"
    /\ DOMAIN args = {"db", "term"}
    /\ calls[1].kw["retmax"] = PyInt(10)
    /\ calls[2].kw["rettype"] = Text(<<"abstract">>)
    /\ calls[2].kw["retmode"] = Text(<<"text">>)

(* C24: esearch makes exactly one collaborator call, search_with_history   *)
(* when usehistory is present and truthy and search otherwise, and does    *)
(* not forward usehistory to the collaborator.                             *)
C24_UsehistoryStripped ==
    (Running /\ name = "esearch")
    => /\ Len(calls) = 1
       /\ calls[1].method =
            (IF "usehistory" \in DOMAIN args /\ Truthy(args["usehistory"])
             THEN "esearch.search_with_history" ELSE "esearch.search")
       /\ "usehistory" \notin DOMAIN calls[1].kw
       /\ \A i \in 1..Len(calls[1].pos) : calls[1].pos[i].t # "bool"

(***************************************************************************)
(* The two normalizers side by side                                        *)
(***************************************************************************)
(* the kind of the first class, in the fixed priority, that e is an        *)
(* instance of                                                             *)
FirstMatch(e) ==
    LET priority == <<"RateLimitError", "AuthenticationError", "NetworkError",
                      "NCBIError">>
        kinds == <<"RateLimited", "AuthenticationFailed", "NetworkFailure",
                   "ProviderError">>
        matching == {i \in 1..Len(priority) : priority[i] \in e.bases}
    IN  IF matching = {} THEN "Unexpected"
        ELSE kinds[CHOOSE i \in matching : \A j \in matching : i <= j]

LazilyCreated == ~seen.accessed => instances = <<>>

(* the accesses since the last reinitialize all returned one instance *)
SameInstance == Cardinality(seen.returned) <= 1

(* the instance in use was constructed with the stored credentials, and    *)
(* after a reinitialize it is one constructed since                        *)
FreshCredentials ==
    /\ client_manager.client # 0
       => instances[client_manager.client] = NCBIClient(client_manager)
    /\ seen.reinits > 0 => seen.returned \subseteq seen.fresh

(* reinitialize stored each argument that is neither null nor empty and    *)
(* left the other credential as it was                                     *)
CredentialsUpdated ==
    /\ client_manager.api_key =
         (IF seen.asked.api_key \in {None, Text(<<>>)} THEN seen.before.api_key
          ELSE seen.asked.api_key)
    /\ client_manager.email =
         (IF seen.asked.email \in {None, Text(<<>>)} THEN seen.before.email
          ELSE seen.asked.email)

(* a collaborator call of the handlers goes through the manager's client *)
CurrentClientUsed == pc = "waiting" => via = client_manager.client

(* C25: under sequential use the manager creates no client before the      *)
(* first access, returns one instance between two reinitialize calls,      *)
(* constructs a new one with the updated credentials on the first access   *)
(* after reinitialize (a null or empty argument leaving the credential as  *)
(* it was), and the shared handlers call through the client that is        *)
(* current at the time of the call.                                        *)
C25_LazySingleton ==
    ~seen.concurrent
    => /\ LazilyCreated
       /\ SameInstance
       /\ FreshCredentials
       /\ CredentialsUpdated
       /\ CurrentClientUsed

(* C26: with several threads inside the client property while no client    *)
(* exists, at startup or after reinitialize, at most one client is         *)
(* constructed and every thread obtains that one.                          *)
C26_OneClientUnderThreads ==
    /\ Cardinality(seen.fresh) <= 1
    /\ Cardinality(seen.returned) <= 1

====
